---- MODULE Spec2Model ----
(***************************************************************************)
(* Model of the spatial partitioning grid of the Plinko physics simulation *)
(* (src/src/grid.rs), the bodies it owns (src/src/items.rs), the vector    *)
(* library (src/src/lib.rs) and the per-frame driver (src/src/main.rs).    *)
(*                                                                         *)
(* Numbers.  An f32 is modelled in fixed point: the integer n stands for   *)
(* the real n / Sub, products and quotients are rounded toward zero, and   *)
(* the two infinities and NaN are the distinguished values INF, -INF and   *)
(* NAN.  An i32 or usize is the integer itself.                            *)
(***************************************************************************)
EXTENDS Integers, Sequences, FiniteSets, TLC

(* ----------------------------- bounds ---------------------------------- *)
\* Sub-pixel resolution of the fixed-point f32: one unit is 1/Sub.
Sub == 16
\* Most balls ever registered (ball_id never exceeds it).
MaxBalls == 2
\* Most walls ever registered (wall_id never exceeds it).
MaxWalls == 1
\* Most draw_frame calls in one run.
MaxFrames == 2
\* Most walls and balls of a board that registers wall after wall.
MaxBoardWalls == 2
MaxBoardBalls == 1
\* Most method calls on the free-standing bodies in one run.
MaxCalls == 2

(* ------------------------ program constants ---------------------------- *)
MAX_VELOCITY == 2000
MIN_VELOCITY == -2000
GRAVITY == <<0, 400 * Sub>>
COLLISION_LOOPS == 20
\* usize::MAX, the coordinate of the out-of-bounds section (any value above
\* every grid coordinate behaves alike).
USIZE_MAX == 2147483647

(* ------------------------------ f32 ------------------------------------ *)
INF == 1000000000
NAN == 2000000000

Abs(a) == IF a < 0 THEN -a ELSE a

Sgn(a) == IF a < 0 THEN -1 ELSE IF a > 0 THEN 1 ELSE 0

\* Rust's integer division and its f32 -> i32 cast both round toward zero.
TDiv(a, b) == Sgn(a) * Sgn(b) * (Abs(a) \div Abs(b))

\* Rust's % keeps the sign of the dividend.
TRem(a, b) == a - b * TDiv(a, b)

IsInf(a) == a = INF \/ a = -INF

\* An i32 or usize seen as f32.
ToF32(n) == n * Sub

\* `x as i32` for an f32 x: NaN gives 0, an infinity saturates, anything else
\* loses its fraction.
AsI32(x) ==
    IF x = NAN THEN 0
    ELSE IF IsInf(x) THEN Sgn(x) * USIZE_MAX
    ELSE TDiv(x, Sub)

FNeg(a) == IF a = NAN THEN NAN ELSE -a

FAdd(a, b) ==
    IF a = NAN \/ b = NAN THEN NAN
    ELSE IF IsInf(a) THEN (IF b = -a THEN NAN ELSE a)
    ELSE IF IsInf(b) THEN b
    ELSE a + b

FSub(a, b) == FAdd(a, FNeg(b))

FMul(a, b) ==
    IF a = NAN \/ b = NAN THEN NAN
    ELSE IF IsInf(a) \/ IsInf(b)
         THEN (IF a = 0 \/ b = 0 THEN NAN ELSE Sgn(a) * Sgn(b) * INF)
    ELSE TDiv(a * b, Sub)

FDiv(a, b) ==
    IF a = NAN \/ b = NAN THEN NAN
    ELSE IF IsInf(a) THEN (IF IsInf(b) THEN NAN
                           ELSE IF b < 0 THEN -a ELSE a)
    ELSE IF IsInf(b) THEN 0
    ELSE IF b = 0 THEN (IF a = 0 THEN NAN ELSE Sgn(a) * INF)
    ELSE TDiv(a * Sub, b)

\* Comparisons with NaN are false.
FLt(a, b) == a # NAN /\ b # NAN /\ a < b
FLe(a, b) == a # NAN /\ b # NAN /\ a <= b
FGt(a, b) == FLt(b, a)

FAbs(a) == IF a = NAN THEN NAN ELSE Abs(a)

\* f32::clamp
Clamp(a, lo, hi) == IF FLt(a, lo) THEN lo ELSE IF FGt(a, hi) THEN hi ELSE a

RECURSIVE SqrtIter(_, _, _)
SqrtIter(n, lo, hi) ==
    IF lo >= hi THEN lo
    ELSE LET mid == (lo + hi + 1) \div 2
         IN  IF mid * mid <= n THEN SqrtIter(n, mid, hi)
             ELSE SqrtIter(n, lo, mid - 1)

\* The integer square root: the fixed-point sqrt of a sum of unit squares.
ISqrt(n) == SqrtIter(n, 0, 46340)

(* ------------------------- library (lib.rs) ---------------------------- *)
dot(vec1, vec2) == FAdd(FMul(vec1[1], vec2[1]), FMul(vec1[2], vec2[2]))

get_magnitude(vec) == ISqrt(vec[1] * vec[1] + vec[2] * vec[2])

\* normalize dividing by the magnitude whatever it is.
normalize_unguarded(vec) ==
    LET mag == get_magnitude(vec)
    IN  <<FDiv(vec[1], mag), FDiv(vec[2], mag)>>

normalize(vec) ==
    LET mag == get_magnitude(vec)
    IN  IF mag = 0 THEN <<0, 0>>
        ELSE <<FDiv(vec[1], mag), FDiv(vec[2], mag)>>

find_vector(x, y) == <<FSub(y[1], x[1]), FSub(y[2], x[2])>>

find_normal(x, y) ==
    LET vec == normalize(find_vector(x, y))
    IN  <<FNeg(vec[2]), vec[1]>>

(* --------------------------- items (items.rs) -------------------------- *)
\* PhysItem::Ball(id) and PhysItem::Wall(id)
BallItem(id) == [kind |-> "Ball", id |-> id]
WallItem(id) == [kind |-> "Wall", id |-> id]

\* Wall::new(a, b, Some(width), _, Some(friction), Some(restitution))
NewWall(a, b, width, friction, restitution) ==
    [id |-> 0, a |-> a, b |-> b, width |-> width,
     vec |-> normalize(find_vector(a, b)),
     length |-> get_magnitude(find_vector(a, b)),
     nvec |-> find_normal(a, b),
     friction |-> friction, restitution |-> restitution]

\* Ball::new(position, Some(velocity), Some(radius), _, Some(friction), Some(restitution))
NewBall(position, velocity, radius, friction, restitution) ==
    [id |-> 0, position |-> position, velocity |-> velocity, radius |-> radius,
     friction |-> friction, restitution |-> restitution, unit_id |-> <<0, 0>>]

\* Ball::move_ball clamping the horizontal velocity only.
ball_move_ball_clamps_x(ball, dt) ==
    LET new_x == FAdd(ball.position[1], FMul(ball.velocity[1], dt))
        new_y == FAdd(ball.position[2], FMul(ball.velocity[2], dt))
        clamped_vx == Clamp(ball.velocity[1], ToF32(MIN_VELOCITY), ToF32(MAX_VELOCITY))
    IN  [ball EXCEPT !.position = <<new_x, new_y>>,
                     !.velocity = <<clamped_vx, ball.velocity[2]>>]

\* Ball::move_ball(Some(dt))
ball_move_ball(ball, dt) ==
    LET new_x == FAdd(ball.position[1], FMul(ball.velocity[1], dt))
        new_y == FAdd(ball.position[2], FMul(ball.velocity[2], dt))
        clamped_vx == Clamp(ball.velocity[1], ToF32(MIN_VELOCITY), ToF32(MAX_VELOCITY))
        clamped_vy == Clamp(ball.velocity[2], ToF32(MIN_VELOCITY), ToF32(MAX_VELOCITY))
    IN  [ball EXCEPT !.position = <<new_x, new_y>>,
                     !.velocity = <<clamped_vx, clamped_vy>>]

\* Ball::apply_force(force, Some(dt))
apply_force(ball, force, dt) ==
    LET new_x == FAdd(ball.velocity[1], FMul(force[1], dt))
        new_y == FAdd(ball.velocity[2], FMul(force[2], dt))
    IN  [ball EXCEPT !.velocity = <<new_x, new_y>>]

\* wall_collision pushing the ball along the normal whatever side it is on.
wall_collision_one_sided(ball, wall) ==
    LET vec0 == find_vector(wall.a, ball.position)
        position == dot(vec0, wall.vec)
        vec == IF FGt(position, wall.length)
               THEN find_vector(wall.b, ball.position) ELSE vec0
        corner == FLt(position, 0) \/ FGt(position, wall.length)
        nv == IF corner THEN normalize(vec) ELSE wall.nvec
        tv == IF corner THEN <<FNeg(nv[2]), nv[1]>> ELSE wall.vec
        dist == IF corner THEN get_magnitude(vec) ELSE dot(vec, wall.nvec)
        min_dist == IF corner THEN ToF32(ball.radius)
                    ELSE ToF32(ball.radius + TDiv(wall.width, 2))
        n_vel == dot(ball.velocity, nv)
        t_vel == dot(ball.velocity, tv)
        total_restitution == FAdd(wall.restitution, ball.restitution)
        total_friction == FAdd(wall.friction, ball.friction)
        x_n == FMul(FMul(FNeg(n_vel), wall.nvec[1]), total_restitution)
        x_t == FMul(FMul(t_vel, wall.vec[1]), FSub(ToF32(1), total_friction))
        y_n == FMul(FMul(FNeg(n_vel), wall.nvec[2]), total_restitution)
        y_t == FMul(FMul(t_vel, wall.vec[2]), FSub(ToF32(1), total_friction))
        penetration == FSub(min_dist, FAbs(dist))
        new_x == FAdd(ball.position[1], FMul(nv[1], penetration))
        new_y == FAdd(ball.position[2], FMul(nv[2], penetration))
    IN  IF FGt(FAbs(dist), min_dist) THEN ball
        ELSE IF (FLt(n_vel, 0) /\ FLt(dist, 0)) \/ (FGt(n_vel, 0) /\ FGt(dist, 0))
        THEN ball
        ELSE [ball EXCEPT
                !.velocity = <<FAdd(x_n, x_t), FAdd(y_n, y_t)>>,
                !.position = IF FGt(penetration, 0) THEN <<new_x, new_y>> ELSE @]

\* Ball::wall_collision(&mut self, wall)
wall_collision(ball, wall) ==
    LET vec0 == find_vector(wall.a, ball.position)
        position == dot(vec0, wall.vec)
        vec == IF FGt(position, wall.length)
               THEN find_vector(wall.b, ball.position) ELSE vec0
        corner == FLt(position, 0) \/ FGt(position, wall.length)
        nv == IF corner THEN normalize(vec) ELSE wall.nvec
        tv == IF corner THEN <<FNeg(nv[2]), nv[1]>> ELSE wall.vec
        dist == IF corner THEN get_magnitude(vec) ELSE dot(vec, wall.nvec)
        min_dist == IF corner THEN ToF32(ball.radius)
                    ELSE ToF32(ball.radius + TDiv(wall.width, 2))
        n_vel == dot(ball.velocity, nv)
        t_vel == dot(ball.velocity, tv)
        total_restitution == FAdd(wall.restitution, ball.restitution)
        total_friction == FAdd(wall.friction, ball.friction)
        x_n == FMul(FMul(FNeg(n_vel), wall.nvec[1]), total_restitution)
        x_t == FMul(FMul(t_vel, wall.vec[1]), FSub(ToF32(1), total_friction))
        y_n == FMul(FMul(FNeg(n_vel), wall.nvec[2]), total_restitution)
        y_t == FMul(FMul(t_vel, wall.vec[2]), FSub(ToF32(1), total_friction))
        penetration == FSub(min_dist, FAbs(dist))
        sign == IF dist >= 0 THEN ToF32(1) ELSE ToF32(-1)
        new_x == FAdd(ball.position[1], FMul(FMul(nv[1], penetration), sign))
        new_y == FAdd(ball.position[2], FMul(FMul(nv[2], penetration), sign))
    IN  IF FGt(FAbs(dist), min_dist) THEN ball
        ELSE IF (FLt(n_vel, 0) /\ FLt(dist, 0)) \/ (FGt(n_vel, 0) /\ FGt(dist, 0))
        THEN ball
        ELSE [ball EXCEPT
                !.velocity = <<FAdd(x_n, x_t), FAdd(y_n, y_t)>>,
                !.position = IF FGt(penetration, 0) THEN <<new_x, new_y>> ELSE @]

\* ball_collision giving both balls the normal part with the same sign.
ball_collision_same_push(self, other) ==
    LET vec == find_vector(other.position, self.position)
        dist == get_magnitude(vec)
        min_dist == ToF32(self.radius + other.radius)
        nv == normalize(vec)
        tv == <<FNeg(nv[2]), nv[1]>>
        n_vel_self == dot(self.velocity, nv)
        t_vel_self == dot(self.velocity, tv)
        n_vel_other == dot(other.velocity, nv)
        t_vel_other == dot(other.velocity, tv)
        avg_n_vel == FDiv(FAdd(FAbs(n_vel_self), FAbs(n_vel_other)), ToF32(2))
        total_restitution == FAdd(self.restitution, other.restitution)
        total_friction == FAdd(self.friction, other.friction)
        x_n == FMul(FMul(avg_n_vel, nv[1]), total_restitution)
        x_t_self == FMul(FMul(t_vel_self, tv[1]), FSub(ToF32(1), total_friction))
        x_t_other == FMul(FMul(t_vel_other, tv[1]), FSub(ToF32(1), total_friction))
        y_n == FMul(FMul(avg_n_vel, nv[2]), total_restitution)
        y_t_self == FMul(FMul(t_vel_self, tv[2]), FSub(ToF32(1), total_friction))
        y_t_other == FMul(FMul(t_vel_other, tv[2]), FSub(ToF32(1), total_friction))
        penetration == FSub(min_dist, FAbs(dist))
        push == penetration > 0
        new_x_self == FAdd(self.position[1], FDiv(FMul(nv[1], penetration), ToF32(2)))
        new_y_self == FAdd(self.position[2], FDiv(FMul(nv[2], penetration), ToF32(2)))
        new_x_other == FSub(other.position[1], FDiv(FMul(nv[1], penetration), ToF32(2)))
        new_y_other == FSub(other.position[2], FDiv(FMul(nv[2], penetration), ToF32(2)))
    IN  IF FGt(dist, min_dist) THEN <<self, other>>
        ELSE IF FGt(FSub(n_vel_self, n_vel_other), 0) THEN <<self, other>>
        ELSE << [self EXCEPT
                   !.velocity = <<FAdd(x_n, x_t_self), FAdd(y_n, y_t_self)>>,
                   !.position = IF push THEN <<new_x_self, new_y_self>> ELSE @],
                [other EXCEPT
                   !.velocity = <<FAdd(x_n, x_t_other), FAdd(y_n, y_t_other)>>,
                   !.position = IF push THEN <<new_x_other, new_y_other>> ELSE @] >>

\* ball_collision without its early exit for balls that do not touch.
ball_collision_no_gap_test(self, other) ==
    LET vec == find_vector(other.position, self.position)
        dist == get_magnitude(vec)
        min_dist == ToF32(self.radius + other.radius)
        nv == normalize(vec)
        tv == <<FNeg(nv[2]), nv[1]>>
        n_vel_self == dot(self.velocity, nv)
        t_vel_self == dot(self.velocity, tv)
        n_vel_other == dot(other.velocity, nv)
        t_vel_other == dot(other.velocity, tv)
        avg_n_vel == FDiv(FAdd(FAbs(n_vel_self), FAbs(n_vel_other)), ToF32(2))
        total_restitution == FAdd(self.restitution, other.restitution)
        total_friction == FAdd(self.friction, other.friction)
        x_n == FMul(FMul(avg_n_vel, nv[1]), total_restitution)
        x_t_self == FMul(FMul(t_vel_self, tv[1]), FSub(ToF32(1), total_friction))
        x_t_other == FMul(FMul(t_vel_other, tv[1]), FSub(ToF32(1), total_friction))
        y_n == FMul(FMul(avg_n_vel, nv[2]), total_restitution)
        y_t_self == FMul(FMul(t_vel_self, tv[2]), FSub(ToF32(1), total_friction))
        y_t_other == FMul(FMul(t_vel_other, tv[2]), FSub(ToF32(1), total_friction))
        penetration == FSub(min_dist, FAbs(dist))
        push == penetration > 0
        new_x_self == FAdd(self.position[1], FDiv(FMul(nv[1], penetration), ToF32(2)))
        new_y_self == FAdd(self.position[2], FDiv(FMul(nv[2], penetration), ToF32(2)))
        new_x_other == FSub(other.position[1], FDiv(FMul(nv[1], penetration), ToF32(2)))
        new_y_other == FSub(other.position[2], FDiv(FMul(nv[2], penetration), ToF32(2)))
    IN  IF FGt(FSub(n_vel_self, n_vel_other), 0) THEN <<self, other>>
        ELSE << [self EXCEPT
                   !.velocity = <<FAdd(x_n, x_t_self), FAdd(y_n, y_t_self)>>,
                   !.position = IF push THEN <<new_x_self, new_y_self>> ELSE @],
                [other EXCEPT
                   !.velocity = <<FAdd(FNeg(x_n), x_t_other), FAdd(FNeg(y_n), y_t_other)>>,
                   !.position = IF push THEN <<new_x_other, new_y_other>> ELSE @] >>

\* Ball::ball_collision(&mut self, other): the pair <<self, other>> afterwards
ball_collision(self, other) ==
    LET vec == find_vector(other.position, self.position)
        dist == get_magnitude(vec)
        min_dist == ToF32(self.radius + other.radius)
        nv == normalize(vec)
        tv == <<FNeg(nv[2]), nv[1]>>
        n_vel_self == dot(self.velocity, nv)
        t_vel_self == dot(self.velocity, tv)
        n_vel_other == dot(other.velocity, nv)
        t_vel_other == dot(other.velocity, tv)
        avg_n_vel == FDiv(FAdd(FAbs(n_vel_self), FAbs(n_vel_other)), ToF32(2))
        total_restitution == FAdd(self.restitution, other.restitution)
        total_friction == FAdd(self.friction, other.friction)
        x_n == FMul(FMul(avg_n_vel, nv[1]), total_restitution)
        x_t_self == FMul(FMul(t_vel_self, tv[1]), FSub(ToF32(1), total_friction))
        x_t_other == FMul(FMul(t_vel_other, tv[1]), FSub(ToF32(1), total_friction))
        y_n == FMul(FMul(avg_n_vel, nv[2]), total_restitution)
        y_t_self == FMul(FMul(t_vel_self, tv[2]), FSub(ToF32(1), total_friction))
        y_t_other == FMul(FMul(t_vel_other, tv[2]), FSub(ToF32(1), total_friction))
        penetration == FSub(min_dist, FAbs(dist))
        push == penetration > 0
        new_x_self == FAdd(self.position[1], FDiv(FMul(nv[1], penetration), ToF32(2)))
        new_y_self == FAdd(self.position[2], FDiv(FMul(nv[2], penetration), ToF32(2)))
        new_x_other == FSub(other.position[1], FDiv(FMul(nv[1], penetration), ToF32(2)))
        new_y_other == FSub(other.position[2], FDiv(FMul(nv[2], penetration), ToF32(2)))
    IN  IF FGt(dist, min_dist) THEN <<self, other>>
        ELSE IF FGt(FSub(n_vel_self, n_vel_other), 0) THEN <<self, other>>
        ELSE << [self EXCEPT
                   !.velocity = <<FAdd(x_n, x_t_self), FAdd(y_n, y_t_self)>>,
                   !.position = IF push THEN <<new_x_self, new_y_self>> ELSE @],
                [other EXCEPT
                   !.velocity = <<FAdd(FNeg(x_n), x_t_other), FAdd(FNeg(y_n), y_t_other)>>,
                   !.position = IF push THEN <<new_x_other, new_y_other>> ELSE @] >>

(* ----------------------------- grid (grid.rs) -------------------------- *)
\* A HashMap<usize, _> is a function on the set of its keys.
EmptyMap == [i \in {} |-> 0]

MapInsert(m, k, v) == [i \in DOMAIN m \cup {k} |-> IF i = k THEN v ELSE m[i]]

MapRemove(m, k) == [i \in DOMAIN m \ {k} |-> m[i]]

Contains(seq, x) == \E i \in 1..Len(seq) : seq[i] = x

\* The id of the out_of_bounds section.
OutOfBoundsId == <<USIZE_MAX, USIZE_MAX>>

\* Grid::new: the Grid struct, with `panicked` recording that a call panicked.
NewGrid(unit_width, unit_height, window_width, window_height) ==
    LET xu == TDiv(window_width + unit_width * 2, unit_width)
        yu == TDiv(window_height + unit_height * 2, unit_height)
    IN  [unit_width |-> unit_width, unit_height |-> unit_height,
         grid |-> [c \in (0..(xu - 1)) \X (0..(yu - 1)) |-> <<>>],
         out_of_bounds |-> <<>>,
         walls |-> EmptyMap, balls |-> EmptyMap,
         x_units |-> xu, y_units |-> yu,
         ball_cnt |-> 0, ball_id |-> 0, wall_cnt |-> 0, wall_id |-> 0,
         panicked |-> FALSE]

\* remove_ball matching the identifier alone, whatever the kind of the item.
remove_ball_any_kind(items, id) ==
    SelectSeq(items, LAMBDA item : item.id # id)

\* Section::remove_ball, on the items of a section
remove_ball(items, id) ==
    SelectSeq(items, LAMBDA item : ~(item.kind = "Ball" /\ item.id = id))

\* Grid::get_section: the section is named by its id.
get_section(g, x, y) ==
    IF x < 0 \/ x >= g.x_units \/ y < 0 \/ y >= g.y_units
    THEN OutOfBoundsId
    ELSE <<x, y>>

\* The world-to-cell conversion of one axis: (x as i32 + unit) / unit.
UnitOf(x, unit) == TDiv(AsI32(x) + unit, unit)

\* Grid::get_section_at_position
get_section_at_position(g, x, y) ==
    get_section(g, UnitOf(x, g.unit_width), UnitOf(y, g.unit_height))

\* The items of the section with id `sid`.
SectionItems(g, sid) ==
    IF sid = OutOfBoundsId THEN g.out_of_bounds ELSE g.grid[sid]

\* section.items.push(item) on the section with id `sid`.
PushItem(g, sid, item) ==
    IF sid = OutOfBoundsId
    THEN [g EXCEPT !.out_of_bounds = Append(@, item)]
    ELSE [g EXCEPT !.grid[sid] = Append(@, item)]

\* The traversal loop without `steps += 1`.
RECURSIVE dda_loop_uncounted(_, _, _, _, _)
dda_loop_uncounted(g, vx, vy, end, st) ==
    LET visited == IF ~Contains(st.visited_ids, st.curr)
                   THEN Append(st.visited_ids, st.curr) ELSE st.visited_ids
        tx0 == IF FLt(vx, 0) THEN FDiv(FNeg(st.relative_x), vx)
               ELSE IF FGt(vx, 0)
                    THEN FDiv(FSub(ToF32(g.unit_width), st.relative_x), vx)
               ELSE INF
        ty0 == IF FLt(vy, 0) THEN FDiv(FNeg(st.relative_y), vy)
               ELSE IF FGt(vy, 0)
                    THEN FDiv(FSub(ToF32(g.unit_height), st.relative_y), vy)
               ELSE INF
        tx == IF FLe(tx0, 0) THEN INF ELSE tx0
        ty == IF FLe(ty0, 0) THEN INF ELSE ty0
        xfirst == FLt(tx, ty)
        t == IF xfirst THEN tx ELSE ty
        curr_x_unit == IF xfirst
                       THEN (IF FGt(vx, 0) THEN st.curr_x_unit + 1 ELSE st.curr_x_unit - 1)
                       ELSE st.curr_x_unit
        curr_y_unit == IF xfirst THEN st.curr_y_unit
                       ELSE (IF FGt(vy, 0) THEN st.curr_y_unit + 1 ELSE st.curr_y_unit - 1)
        relative_x == IF xfirst
                      THEN (IF FGt(vx, 0) THEN 0 ELSE ToF32(g.unit_width))
                      ELSE FMul(vx, t)
        relative_y == IF xfirst THEN FMul(vy, t)
                      ELSE (IF FGt(vy, 0) THEN 0 ELSE ToF32(g.unit_height))
        max_steps == (g.x_units + g.y_units) * 2 + 10
        turn == [st EXCEPT !.visited_ids = visited, !.turns = @ + 1]
    IN  IF st.curr = end THEN turn
        ELSE IF curr_x_unit < 0 \/ curr_x_unit >= g.x_units
                \/ curr_y_unit < 0 \/ curr_y_unit >= g.y_units
        THEN [turn EXCEPT !.visited_ids =
                 IF ~Contains(visited, OutOfBoundsId)
                 THEN Append(visited, OutOfBoundsId) ELSE visited]
        ELSE IF st.steps + 1 > max_steps THEN [turn EXCEPT !.steps = @ + 1]
        ELSE dda_loop_uncounted(g, vx, vy, end,
                      [curr_x_unit |-> curr_x_unit, curr_y_unit |-> curr_y_unit,
                       relative_x |-> relative_x, relative_y |-> relative_y,
                       curr |-> get_section(g, curr_x_unit, curr_y_unit),
                       visited_ids |-> visited, steps |-> st.steps,
                       turns |-> st.turns + 1])

\* One turn of the traversal loop of get_sections_between_points; st holds
\* the loop's variables (st.turns counts the turns begun), the result is their
\* value at the loop's exit.
RECURSIVE dda_loop(_, _, _, _, _)
dda_loop(g, vx, vy, end, st) ==
    LET visited == IF ~Contains(st.visited_ids, st.curr)
                   THEN Append(st.visited_ids, st.curr) ELSE st.visited_ids
        tx0 == IF FLt(vx, 0) THEN FDiv(FNeg(st.relative_x), vx)
               ELSE IF FGt(vx, 0)
                    THEN FDiv(FSub(ToF32(g.unit_width), st.relative_x), vx)
               ELSE INF
        ty0 == IF FLt(vy, 0) THEN FDiv(FNeg(st.relative_y), vy)
               ELSE IF FGt(vy, 0)
                    THEN FDiv(FSub(ToF32(g.unit_height), st.relative_y), vy)
               ELSE INF
        tx == IF FLe(tx0, 0) THEN INF ELSE tx0
        ty == IF FLe(ty0, 0) THEN INF ELSE ty0
        xfirst == FLt(tx, ty)
        t == IF xfirst THEN tx ELSE ty
        curr_x_unit == IF xfirst
                       THEN (IF FGt(vx, 0) THEN st.curr_x_unit + 1 ELSE st.curr_x_unit - 1)
                       ELSE st.curr_x_unit
        curr_y_unit == IF xfirst THEN st.curr_y_unit
                       ELSE (IF FGt(vy, 0) THEN st.curr_y_unit + 1 ELSE st.curr_y_unit - 1)
        relative_x == IF xfirst
                      THEN (IF FGt(vx, 0) THEN 0 ELSE ToF32(g.unit_width))
                      ELSE FMul(vx, t)
        relative_y == IF xfirst THEN FMul(vy, t)
                      ELSE (IF FGt(vy, 0) THEN 0 ELSE ToF32(g.unit_height))
        max_steps == (g.x_units + g.y_units) * 2 + 10
        turn == [st EXCEPT !.visited_ids = visited, !.turns = @ + 1]
    IN  IF st.curr = end THEN turn
        ELSE IF curr_x_unit < 0 \/ curr_x_unit >= g.x_units
                \/ curr_y_unit < 0 \/ curr_y_unit >= g.y_units
        THEN [turn EXCEPT !.visited_ids =
                 IF ~Contains(visited, OutOfBoundsId)
                 THEN Append(visited, OutOfBoundsId) ELSE visited]
        ELSE IF st.steps + 1 > max_steps THEN [turn EXCEPT !.steps = @ + 1]
        ELSE dda_loop(g, vx, vy, end,
                      [curr_x_unit |-> curr_x_unit, curr_y_unit |-> curr_y_unit,
                       relative_x |-> relative_x, relative_y |-> relative_y,
                       curr |-> get_section(g, curr_x_unit, curr_y_unit),
                       visited_ids |-> visited, steps |-> st.steps + 1,
                       turns |-> st.turns + 1])

\* The traversal returning at once when either component of the direction is
\* zero.
sections_walk_either_zero(g, s, e) ==
    LET vec == normalize(find_vector(s, e))
        curr_x_unit == UnitOf(s[1], g.unit_width)
        curr_y_unit == UnitOf(s[2], g.unit_height)
        curr == get_section(g, curr_x_unit, curr_y_unit)
        end == get_section_at_position(g, e[1], e[2])
        out == dda_loop(g, vec[1], vec[2], end,
                      [curr_x_unit |-> curr_x_unit, curr_y_unit |-> curr_y_unit,
                       relative_x |-> TRem(s[1], ToF32(g.unit_width)),
                       relative_y |-> TRem(s[2], ToF32(g.unit_height)),
                       curr |-> curr, visited_ids |-> <<>>, steps |-> 0,
                       turns |-> 0])
    IN  IF (vec[1] = 0 \/ vec[2] = 0) \/ curr = end
        THEN [visited_ids |-> <<curr>>, steps |-> 0, turns |-> 0]
        ELSE [visited_ids |-> IF ~Contains(out.visited_ids, end)
                              THEN Append(out.visited_ids, end)
                              ELSE out.visited_ids,
              steps |-> out.steps, turns |-> out.turns]

\* The traversal whose early return gives the start's unit coordinates as they
\* are, not the id of its section.
sections_walk_raw_start(g, s, e) ==
    LET vec == normalize(find_vector(s, e))
        curr_x_unit == UnitOf(s[1], g.unit_width)
        curr_y_unit == UnitOf(s[2], g.unit_height)
        curr == get_section(g, curr_x_unit, curr_y_unit)
        end == get_section_at_position(g, e[1], e[2])
        out == dda_loop(g, vec[1], vec[2], end,
                      [curr_x_unit |-> curr_x_unit, curr_y_unit |-> curr_y_unit,
                       relative_x |-> TRem(s[1], ToF32(g.unit_width)),
                       relative_y |-> TRem(s[2], ToF32(g.unit_height)),
                       curr |-> curr, visited_ids |-> <<>>, steps |-> 0,
                       turns |-> 0])
    IN  IF (vec[1] = 0 /\ vec[2] = 0) \/ curr = end
        THEN [visited_ids |-> << <<curr_x_unit, curr_y_unit>> >>, steps |-> 0, turns |-> 0]
        ELSE [visited_ids |-> IF ~Contains(out.visited_ids, end)
                              THEN Append(out.visited_ids, end)
                              ELSE out.visited_ids,
              steps |-> out.steps, turns |-> out.turns]

\* Grid::get_sections_between_points, with the loop's counters at its return:
\* .visited_ids is the vector returned, .steps the value of `steps`, .turns
\* the number of turns of the loop.
sections_walk(g, s, e) ==
    LET vec == normalize(find_vector(s, e))
        curr_x_unit == UnitOf(s[1], g.unit_width)
        curr_y_unit == UnitOf(s[2], g.unit_height)
        curr == get_section(g, curr_x_unit, curr_y_unit)
        end == get_section_at_position(g, e[1], e[2])
        out == dda_loop(g, vec[1], vec[2], end,
                      [curr_x_unit |-> curr_x_unit, curr_y_unit |-> curr_y_unit,
                       relative_x |-> TRem(s[1], ToF32(g.unit_width)),
                       relative_y |-> TRem(s[2], ToF32(g.unit_height)),
                       curr |-> curr, visited_ids |-> <<>>, steps |-> 0,
                       turns |-> 0])
    IN  IF (vec[1] = 0 /\ vec[2] = 0) \/ curr = end
        THEN [visited_ids |-> <<curr>>, steps |-> 0, turns |-> 0]
        ELSE [visited_ids |-> IF ~Contains(out.visited_ids, end)
                              THEN Append(out.visited_ids, end)
                              ELSE out.visited_ids,
              steps |-> out.steps, turns |-> out.turns]

\* Grid::get_sections_between_points
get_sections_between_points(g, s, e) == sections_walk(g, s, e).visited_ids

\* add_ball taking the identifier from the live count (a freed one comes back).
add_ball_from_count(g, ball) ==
    LET idx == g.ball_cnt
        g1 == [g EXCEPT !.ball_id = @ + 1, !.ball_cnt = @ + 1,
                        !.balls = MapInsert(@, idx, ball)]
        unit == get_section_at_position(g1, ball.position[1], ball.position[2])
        g2 == PushItem(g1, unit, BallItem(idx))
    IN  [g2 EXCEPT !.balls[idx].unit_id = unit, !.balls[idx].id = idx]

\* add_ball leaving the ball's unit_id as Ball::new set it.
add_ball_no_cache(g, ball) ==
    LET idx == g.ball_id
        g1 == [g EXCEPT !.ball_id = @ + 1, !.ball_cnt = @ + 1,
                        !.balls = MapInsert(@, idx, ball)]
        unit == get_section_at_position(g1, ball.position[1], ball.position[2])
        g2 == PushItem(g1, unit, BallItem(idx))
    IN  [g2 EXCEPT !.balls[idx].id = idx]

\* add_ball without `self.ball_cnt += 1`.
add_ball_uncounted(g, ball) ==
    LET idx == g.ball_id
        g1 == [g EXCEPT !.ball_id = @ + 1,
                        !.balls = MapInsert(@, idx, ball)]
        unit == get_section_at_position(g1, ball.position[1], ball.position[2])
        g2 == PushItem(g1, unit, BallItem(idx))
    IN  [g2 EXCEPT !.balls[idx].unit_id = unit, !.balls[idx].id = idx]

\* Grid::add_ball
add_ball(g, ball) ==
    LET idx == g.ball_id
        g1 == [g EXCEPT !.ball_id = @ + 1, !.ball_cnt = @ + 1,
                        !.balls = MapInsert(@, idx, ball)]
        unit == get_section_at_position(g1, ball.position[1], ball.position[2])
        g2 == PushItem(g1, unit, BallItem(idx))
    IN  [g2 EXCEPT !.balls[idx].unit_id = unit, !.balls[idx].id = idx]

\* move_ball leaving the reference in the old section.
move_ball_keeps_old(g, idx) ==
    IF idx \notin DOMAIN g.balls THEN [g EXCEPT !.panicked = TRUE]
    ELSE
    LET ball == g.balls[idx]
        ball_id == ball.unit_id
        unit == get_section_at_position(g, ball.position[1], ball.position[2])
        g1 == PushItem(g, unit, BallItem(idx))
    IN  IF unit # ball_id
        THEN [g1 EXCEPT !.balls[idx].unit_id = unit]
        ELSE g

\* move_ball leaving the ball's unit_id as it was.
move_ball_stale_cache(g, idx) ==
    IF idx \notin DOMAIN g.balls THEN [g EXCEPT !.panicked = TRUE]
    ELSE
    LET ball == g.balls[idx]
        ball_id == ball.unit_id
        unit == get_section_at_position(g, ball.position[1], ball.position[2])
        g1 == PushItem(g, unit, BallItem(idx))
        g2 == IF ball_id[1] >= g.x_units \/ ball_id[2] >= g.y_units
              THEN [g1 EXCEPT !.out_of_bounds = remove_ball(@, idx)]
              ELSE [g1 EXCEPT !.grid[ball_id] = remove_ball(@, idx)]
    IN  IF unit # ball_id THEN g2 ELSE g

\* Grid::move_ball
move_ball(g, idx) ==
    IF idx \notin DOMAIN g.balls THEN [g EXCEPT !.panicked = TRUE]
    ELSE
    LET ball == g.balls[idx]
        ball_id == ball.unit_id
        unit == get_section_at_position(g, ball.position[1], ball.position[2])
        g1 == PushItem(g, unit, BallItem(idx))
        g2 == IF ball_id[1] >= g.x_units \/ ball_id[2] >= g.y_units
              THEN [g1 EXCEPT !.out_of_bounds = remove_ball(@, idx)]
              ELSE [g1 EXCEPT !.grid[ball_id] = remove_ball(@, idx)]
    IN  IF unit # ball_id
        THEN [g2 EXCEPT !.balls[idx].unit_id = unit]
        ELSE g

\* The registration loop of add_wall over the traversal's cells.
RECURSIVE push_wall(_, _, _, _)
push_wall(g, idx, units, k) ==
    IF k > Len(units) THEN g
    ELSE LET unit == units[k]
         IN  push_wall(IF unit[1] < g.x_units /\ unit[2] < g.y_units
                       THEN [g EXCEPT !.grid[unit] = Append(@, WallItem(idx))]
                       ELSE g,
                       idx, units, k + 1)

\* Grid::add_wall
add_wall(g, wall) ==
    LET idx == g.wall_id
        g1 == [g EXCEPT !.wall_id = @ + 1, !.wall_cnt = @ + 1,
                        !.walls = MapInsert(@, idx, wall)]
        g2 == push_wall(g1, idx, get_sections_between_points(g1, wall.a, wall.b), 1)
    IN  [g2 EXCEPT !.walls[idx].id = idx]

\* The removal without the decrement of ball_cnt.
drop_ball_keeps_cnt(g, idx) == [g EXCEPT !.balls = MapRemove(@, idx)]

\* self.balls.remove(&idx); self.ball_cnt -= 1 (the subtraction panics at 0)
drop_ball(g, idx) ==
    IF g.ball_cnt = 0
    THEN [g EXCEPT !.balls = MapRemove(@, idx), !.panicked = TRUE]
    ELSE [g EXCEPT !.balls = MapRemove(@, idx), !.ball_cnt = @ - 1]

\* The first loop of cleanup, over a clone of the out_of_bounds items.
RECURSIVE cleanup_out_of_bounds(_, _, _)
cleanup_out_of_bounds(g, items, k) ==
    IF k > Len(items) \/ g.panicked THEN g
    ELSE IF items[k].kind = "Ball"
    THEN cleanup_out_of_bounds(
             drop_ball([g EXCEPT !.out_of_bounds = remove_ball(@, items[k].id)],
                       items[k].id),
             items, k + 1)
    ELSE cleanup_out_of_bounds(g, items, k + 1)

\* The inner loop of cleanup, over a clone of the items of grid[x][y].
RECURSIVE cleanup_section(_, _, _, _)
cleanup_section(g, unit, items, k) ==
    IF k > Len(items) \/ g.panicked THEN g
    ELSE IF items[k].kind = "Ball"
    THEN cleanup_section(
             drop_ball([g EXCEPT !.grid[unit] = remove_ball(@, items[k].id)],
                       items[k].id),
             unit, items, k + 1)
    ELSE cleanup_section(g, unit, items, k + 1)

\* The outer loop of cleanup, over the columns of the bottom row.
RECURSIVE cleanup_row(_, _, _)
cleanup_row(g, x, y) ==
    IF x >= g.x_units \/ g.panicked THEN g
    ELSE cleanup_row(cleanup_section(g, <<x, y>>, g.grid[<<x, y>>], 1), x + 1, y)

\* cleanup without its second loop, over the bottom row.
cleanup_sentinel_only(g) == cleanup_out_of_bounds(g, g.out_of_bounds, 1)

\* Grid::cleanup
cleanup(g) ==
    cleanup_row(cleanup_out_of_bounds(g, g.out_of_bounds, 1), 0, g.y_units - 1)

\* One item of a scanned section in handle_collisions.  st.g is the grid,
\* st.handled the `handled` vector, st.resolved the collisions resolved so far
\* in this ball's scan (a record of the calls made, not program state).
collide_item(st, idx, item) ==
    IF Contains(st.handled, item.id) THEN st
    ELSE IF item.kind = "Ball"
    THEN IF idx \in DOMAIN st.g.balls /\ item.id \in DOMAIN st.g.balls
         THEN LET pair == ball_collision(st.g.balls[idx], st.g.balls[item.id])
              IN  [st EXCEPT !.g.balls[idx] = pair[1],
                             !.g.balls[item.id] = pair[2],
                             !.handled = Append(@, item.id),
                             !.resolved = Append(@, item)]
         ELSE st
    ELSE IF item.id \notin DOMAIN st.g.walls \/ idx \notin DOMAIN st.g.balls
         THEN [st EXCEPT !.g.panicked = TRUE]
         ELSE [st EXCEPT !.g.balls[idx] = wall_collision(@, st.g.walls[item.id]),
                         !.handled = Append(@, item.id),
                         !.resolved = Append(@, item)]

\* The loop over a clone of the items of one section.
RECURSIVE collide_section(_, _, _, _)
collide_section(st, idx, items, k) ==
    IF k > Len(items) \/ st.g.panicked THEN st
    ELSE collide_section(collide_item(st, idx, items[k]), idx, items, k + 1)

\* The 3x3 loops: x from x_unit-1 to x_unit+1, y inside it; n counts the cells.
RECURSIVE collide_neighbourhood(_, _, _, _, _)
collide_neighbourhood(st, idx, x_unit, y_unit, n) ==
    IF n >= 9 \/ st.g.panicked THEN st
    ELSE LET x == x_unit - 1 + (n \div 3)
             y == y_unit - 1 + (n % 3)
         IN  collide_neighbourhood(
                 IF x >= 0 /\ x < st.g.x_units /\ y >= 0 /\ y < st.g.y_units
                 THEN collide_section(st, idx, st.g.grid[<<x, y>>], 1)
                 ELSE st,
                 idx, x_unit, y_unit, n + 1)

\* The loop of handle_collisions over the ball identifiers; lg.g is the grid
\* and lg.log lists, per scanned ball, its cell and the collisions resolved.
RECURSIVE collide_balls(_, _)
collide_balls(lg, idx) ==
    IF idx >= lg.g.ball_id \/ lg.g.panicked THEN lg
    ELSE IF idx \notin DOMAIN lg.g.balls THEN collide_balls(lg, idx + 1)
    ELSE LET ball == lg.g.balls[idx]
             x_unit == UnitOf(ball.position[1], lg.g.unit_width)
             y_unit == UnitOf(ball.position[2], lg.g.unit_height)
             st == collide_neighbourhood(
                       [g |-> lg.g, handled |-> <<idx>>, resolved |-> <<>>],
                       idx, x_unit, y_unit, 0)
         IN  collide_balls(
                 [g |-> st.g,
                  log |-> Append(lg.log, [ball |-> idx, unit |-> <<x_unit, y_unit>>,
                                          resolved |-> st.resolved])],
                 idx + 1)

\* Grid::handle_collisions: the grid afterwards (.g) and the pass's log (.log)
handle_collisions(g) == collide_balls([g |-> g, log |-> <<>>], 0)

\* The ball loop of draw_frame (drawing leaves the grid alone).
RECURSIVE draw_balls(_, _, _)
draw_balls(g, dt, idx) ==
    IF idx >= g.ball_id \/ g.panicked THEN g
    ELSE IF idx \notin DOMAIN g.balls THEN draw_balls(g, dt, idx + 1)
    ELSE LET moved == apply_force(ball_move_ball(g.balls[idx], dt), GRAVITY, dt)
         IN  draw_balls(move_ball([g EXCEPT !.balls[idx] = moved], idx), dt, idx + 1)

\* Grid::draw_frame
draw_frame(g, dt) == draw_balls(g, dt, 0)

\* The counting loop of update_boxes; bx is the driver's `boxes` vector.
RECURSIVE count_boxes(_, _, _, _, _)
count_boxes(g, bx, box_size, window_height, idx) ==
    IF idx >= g.ball_id THEN bx
    ELSE IF idx \notin DOMAIN g.balls
    THEN count_boxes(g, bx, box_size, window_height, idx + 1)
    ELSE LET position == g.balls[idx].position
             box_pos == TDiv(AsI32(position[1]), box_size)
         IN  count_boxes(g,
                 IF FGt(position[2], ToF32(window_height))
                    /\ box_pos >= 0 /\ box_pos < Len(bx)
                 THEN [bx EXCEPT ![box_pos + 1] = @ + 1]
                 ELSE bx,
                 box_size, window_height, idx + 1)

\* Grid::update_boxes (the counting part; rendering leaves the state alone)
update_boxes(g, bx, box_size, window_height) ==
    count_boxes(g, bx, box_size, window_height, 0)

\* The balls for which the counting loop of update_boxes increments a box, in
\* the loop's order.
boxed(g, bx, box_size, window_height) ==
    SelectSeq([k \in 1..g.ball_id |-> k - 1],
              LAMBDA idx :
                  /\ idx \in DOMAIN g.balls
                  /\ FGt(g.balls[idx].position[2], ToF32(window_height))
                  /\ TDiv(AsI32(g.balls[idx].position[1]), box_size) >= 0
                  /\ TDiv(AsI32(g.balls[idx].position[1]), box_size) < Len(bx))

(* ------------------------------ inputs --------------------------------- *)
\* n pixels (or pixels per second) as f32.
Px(n) == n * Sub

\* Grid::new(unit_width, unit_height, window_width, window_height): the cells
\* of main over a small window, and a grid of other cells.
MainGrid == <<50, 50, 100, 100>>

GridInputs == { MainGrid, <<40, 30, 100, 70>> }

\* Friction and restitution of every body of the model: 1/8.
Coef == Sub \div 8

\* Ball::new(position, velocity, radius 10, ...)
BallInputs ==
    { NewBall(<<Px(47), Px(20)>>, <<0, 0>>, 10, Coef, Coef),
      NewBall(<<Px(60), Px(20)>>, <<0, 0>>, 10, Coef, Coef),
      NewBall(<<Px(20), Px(20)>>, <<Px(-199), 0>>, 10, Coef, Coef),
      NewBall(<<Px(20), Px(120)>>, <<0, 0>>, 10, Coef, Coef),
      NewBall(<<Px(200), Px(20)>>, <<0, 0>>, 10, Coef, Coef) }

\* spawn_balls: x in [20, width - 20), one fixed y near the top, a horizontal
\* velocity in [-200, 200).
SpawnInputs ==
    { ball \in BallInputs :
        /\ ball.position[1] >= Px(20) /\ ball.position[1] < Px(MainGrid[3] - 20)
        /\ ball.position[2] = Px(20)
        /\ ball.velocity[1] >= Px(-200) /\ ball.velocity[1] < Px(200)
        /\ ball.velocity[2] = 0 }

\* Wall::new(a, b, width, ...): the left border of set_up (width 20), a divider
\* and a peg side (width 10)
WallInputs ==
    { NewWall(<<0, 0>>, <<0, Px(MainGrid[4])>>, 20, Coef, Coef),
      NewWall(<<Px(45), 0>>, <<Px(45), Px(100)>>, 10, Coef, Coef),
      NewWall(<<Px(60), Px(40)>>, <<Px(80), Px(60)>>, 10, Coef, Coef) }

\* The frame times the driver passes to draw_frame: a quarter of a second.
DtInputs == { Sub \div 4 }

\* Free-standing balls: `other` rests or moves at (50, 50); `self` is on it,
\* overlaps it from the right, touches it from below or diagonally, or is far
\* from it, at rest, slow, or faster than the velocity range.
OtherInputs ==
    { NewBall(<<Px(50), Px(50)>>, v, 10, Coef, Coef)
        : v \in { <<0, 0>>, <<Px(24), Px(-8)>> } }

SelfInputs ==
    { NewBall(p, v, 10, Coef, Coef)
        : p \in { <<Px(50), Px(50)>>, <<Px(62), Px(50)>>, <<Px(50), Px(70)>>,
                  <<Px(62), Px(66)>>, <<Px(90), Px(50)>> },
          v \in { <<0, 0>>, <<Px(-40), Px(10)>>, <<Px(3000), Px(-2500)>> } }

\* Free-standing walls: a vertical one left of (50, 50) and a horizontal one
\* below (50, 70), the latter with restitution 3/8 and no friction.
BodyWalls ==
    { NewWall(<<Px(45), 0>>, <<Px(45), Px(100)>>, 10, Coef, Coef),
      NewWall(<<0, Px(80)>>, <<Px(100), Px(80)>>, 10, 0, 3 * Coef) }

\* BOXSIZE of the driver
BOXSIZE == 40

(* ------------------------------- state --------------------------------- *)
VARIABLES
    unit_width, unit_height, grid, out_of_bounds, walls, balls,
    x_units, y_units, ball_cnt, ball_id, wall_cnt, wall_id,   \* Grid's fields
    panicked,        \* a call has panicked (the program is gone)
    window_height,   \* the driver's WINDOW_HEIGHT
    boxes,           \* the driver's boxes vector
    pc, loop_i,      \* the driver's place in main / main_loop
    frames,          \* draw_frame calls so far
    issued,          \* the identifiers handed out so far, in order
    last,            \* the last call that changed the grid: its name, its
                     \* argument, ball_cnt before it, the sections a ball left
    bodies,          \* free-standing bodies (not in a grid): a ball `self`, a
                     \* ball `other`, a wall, the last method called on them
                     \* and the two balls as they were before it
    walk,            \* the last get_sections_between_points call on the grid:
                     \* its endpoints, its result and its loop counters
    counted          \* the balls for which update_boxes incremented a box, in
                     \* the order of the increments

gridvars == <<unit_width, unit_height, grid, out_of_bounds, walls, balls,
              x_units, y_units, ball_cnt, ball_id, wall_cnt, wall_id, panicked>>

vars == <<unit_width, unit_height, grid, out_of_bounds, walls, balls,
          x_units, y_units, ball_cnt, ball_id, wall_cnt, wall_id, panicked,
          window_height, boxes, pc, loop_i, frames, issued, last, bodies, walk,
          counted>>

\* The Grid struct of the current state.
G == [unit_width |-> unit_width, unit_height |-> unit_height,
      grid |-> grid, out_of_bounds |-> out_of_bounds,
      walls |-> walls, balls |-> balls,
      x_units |-> x_units, y_units |-> y_units,
      ball_cnt |-> ball_cnt, ball_id |-> ball_id,
      wall_cnt |-> wall_cnt, wall_id |-> wall_id, panicked |-> panicked]

\* The Grid struct of the next state is g.
Becomes(g) ==
    /\ unit_width' = g.unit_width /\ unit_height' = g.unit_height
    /\ grid' = g.grid /\ out_of_bounds' = g.out_of_bounds
    /\ walls' = g.walls /\ balls' = g.balls
    /\ x_units' = g.x_units /\ y_units' = g.y_units
    /\ ball_cnt' = g.ball_cnt /\ ball_id' = g.ball_id
    /\ wall_cnt' = g.wall_cnt /\ wall_id' = g.wall_id
    /\ panicked' = g.panicked

\* The Grid struct of the initial state is g.
Starts(g) ==
    /\ unit_width = g.unit_width /\ unit_height = g.unit_height
    /\ grid = g.grid /\ out_of_bounds = g.out_of_bounds
    /\ walls = g.walls /\ balls = g.balls
    /\ x_units = g.x_units /\ y_units = g.y_units
    /\ ball_cnt = g.ball_cnt /\ ball_id = g.ball_id
    /\ wall_cnt = g.wall_cnt /\ wall_id = g.wall_id
    /\ panicked = g.panicked

\* The sections whose ball references differ between the grid and g.
Left(g) ==
    { balls[i].unit_id : i \in { j \in DOMAIN balls :
          j \notin DOMAIN g.balls \/ g.balls[j].unit_id # balls[j].unit_id } }

\* The key under which m2 holds an entry that m1 does not hold.
NewKey(m1, m2) == CHOOSE k \in DOMAIN m2 : k \notin DOMAIN m1 \/ m2[k] # m1[k]

\* The next state is the grid g, reached by the call `op` with argument `arg`
\* (a call that changes nothing leaves `last` alone).
Returns(g, op, arg) ==
    /\ Becomes(g)
    /\ last' = IF g = G THEN last
               ELSE [op |-> op, arg |-> arg, cnt |-> ball_cnt, from |-> Left(g)]
    /\ UNCHANGED <<bodies, walk, counted>>

\* No free-standing bodies; no traversal called yet.
NoBodies == [op |-> "none"]

NoWalk == [op |-> "none"]

\* main: Grid::new(...), an empty boxes vector filled by set_up
InitWith(start, configs) ==
    \E c \in configs :
        /\ Starts(NewGrid(c[1], c[2], c[3], c[4]))
        /\ (start # "items" => bodies = NoBodies)
        /\ walk = NoWalk
        /\ counted = <<>>
        /\ window_height = c[4]
        /\ boxes = [i \in 1..TDiv(c[3], BOXSIZE) |-> 0]
        /\ pc = start
        /\ loop_i = 0
        /\ frames = 0
        /\ issued = [ball |-> <<>>, wall |-> <<>>]
        /\ last = [op |-> "new", arg |-> 0, cnt |-> 0, from |-> {}]

(* --------------------- the grid's calls, in any order ------------------- *)
\* grid.add_ball(ball), while fewer than `most` balls were registered
CallAddBall(ball, most) ==
    /\ ~panicked
    /\ ball_id < most
    /\ LET g == add_ball(G, ball)
       IN  /\ Returns(g, "add_ball", NewKey(balls, g.balls))
           /\ issued' = [issued EXCEPT !.ball = Append(@, NewKey(balls, g.balls))]
    /\ UNCHANGED <<window_height, boxes, frames>>

DoAddBall(ball) == CallAddBall(ball, MaxBalls)

\* grid.add_wall(wall), while fewer than `most` walls are registered
CallAddWall(wall, most) ==
    /\ ~panicked
    /\ wall_id < most
    /\ LET g == add_wall(G, wall)
       IN  /\ Returns(g, "add_wall", NewKey(walls, g.walls))
           /\ issued' = [issued EXCEPT !.wall = Append(@, NewKey(walls, g.walls))]
    /\ UNCHANGED <<window_height, boxes, frames>>

DoAddWall(wall) == CallAddWall(wall, MaxWalls)

\* grid.move_ball(idx)
DoMoveBall(idx) ==
    /\ ~panicked
    /\ Returns(move_ball(G, idx), "move_ball", idx)
    /\ UNCHANGED <<window_height, boxes, frames, issued>>

\* grid.draw_frame(canvas, dt)
DoDrawFrame(dt) ==
    /\ ~panicked
    /\ frames < MaxFrames
    /\ Returns(draw_frame(G, dt), "draw_frame", dt)
    /\ frames' = frames + 1
    /\ UNCHANGED <<window_height, boxes, issued>>

\* grid.update_boxes(canvas, boxes, font, BOXSIZE, WINDOW_HEIGHT)
DoUpdateBoxes ==
    /\ ~panicked
    /\ boxes' = update_boxes(G, boxes, BOXSIZE, window_height)
    /\ counted' = counted \o boxed(G, boxes, BOXSIZE, window_height)
    /\ UNCHANGED <<gridvars, window_height, frames, issued, last, bodies, walk>>

\* grid.cleanup()
DoCleanup ==
    /\ ~panicked
    /\ Returns(cleanup(G), "cleanup", 0)
    /\ UNCHANGED <<window_height, boxes, frames, issued>>

\* grid.handle_collisions()
DoHandleCollisions ==
    /\ ~panicked
    /\ Returns(handle_collisions(G).g, "handle_collisions", 0)
    /\ UNCHANGED <<window_height, boxes, frames, issued>>

AddBall == \E ball \in BallInputs : DoAddBall(ball) /\ UNCHANGED <<pc, loop_i>>

AddWall == \E wall \in WallInputs : DoAddWall(wall) /\ UNCHANGED <<pc, loop_i>>

\* move_ball is public: any identifier add_ball has handed out may be passed.
MoveBall == \E idx \in 0..(ball_id - 1) : DoMoveBall(idx) /\ UNCHANGED <<pc, loop_i>>

DrawFrame == \E dt \in DtInputs : DoDrawFrame(dt) /\ UNCHANGED <<pc, loop_i>>

Cleanup == DoCleanup /\ UNCHANGED <<pc, loop_i>>

HandleCollisions == DoHandleCollisions /\ UNCHANGED <<pc, loop_i>>

Init == InitWith("api", GridInputs)

Next ==
    \/ AddBall
    \/ AddWall
    \/ MoveBall
    \/ DrawFrame
    \/ Cleanup
    \/ HandleCollisions

\* The grid under any sequence of calls of its public functions.
Spec == Init /\ [][Next]_vars

(* --------------- a board that takes wall after wall (grid.rs) ----------- *)
BoardAddWall ==
    \E wall \in WallInputs :
        CallAddWall(wall, MaxBoardWalls) /\ UNCHANGED <<pc, loop_i>>

BoardAddBall ==
    \E ball \in BallInputs :
        CallAddBall(ball, MaxBoardBalls) /\ UNCHANGED <<pc, loop_i>>

BoardNext ==
    \/ BoardAddWall
    \/ BoardAddBall
    \/ MoveBall
    \/ DrawFrame
    \/ Cleanup
    \/ HandleCollisions

\* The grid under any sequence of calls, with more walls and fewer balls.
BoardSpec == Init /\ [][BoardNext]_vars

(* ------------- the bodies' methods, called directly (items.rs) ---------- *)
\* A method has been called: self and other become s and o.
Called(op, s, o) ==
    /\ bodies.op # "none"
    /\ bodies.calls < MaxCalls
    /\ bodies' = [bodies EXCEPT !.op = op, !.self = s, !.other = o,
                                !.was = [self |-> bodies.self, other |-> bodies.other],
                                !.calls = @ + 1]
    /\ UNCHANGED <<gridvars, window_height, boxes, pc, loop_i, frames, issued,
                   last, walk, counted>>

\* self.ball_collision(&mut other)
BallCollision ==
    LET pair == ball_collision(bodies.self, bodies.other)
    IN  Called("ball_collision", pair[1], pair[2])

\* self.wall_collision(&wall)
WallCollision ==
    Called("wall_collision", wall_collision(bodies.self, bodies.wall), bodies.other)

\* self.move_ball(Some(dt))
BallMove ==
    \E dt \in DtInputs :
        Called("move_ball", ball_move_ball(bodies.self, dt), bodies.other)

\* self.apply_force(GRAVITY, Some(dt))
ApplyForce ==
    \E dt \in DtInputs :
        Called("apply_force", apply_force(bodies.self, GRAVITY, dt), bodies.other)

\* Ball::new twice and Wall::new, next to an unused grid
ItemsInit ==
    /\ InitWith("items", {MainGrid})
    /\ \E s \in SelfInputs, o \in OtherInputs, w \in BodyWalls :
           bodies = [op |-> "new", self |-> s, other |-> o, wall |-> w,
                     was |-> [self |-> s, other |-> o], calls |-> 0]

ItemsNext ==
    \/ BallCollision
    \/ WallCollision
    \/ BallMove
    \/ ApplyForce

\* Two balls and a wall under any MaxCalls calls of Ball's methods.
ItemsSpec == ItemsInit /\ [][ItemsNext]_vars

(* ---------------- the traversal, called directly (grid.rs) -------------- *)
\* Endpoints: the ends of the walls of WallInputs and of a window-high wall
\* of the smaller grid, points inside cells, a cell corner, and two points
\* outside every grid.
PointInputs ==
    { <<Px(x), Px(y)>> :
        <<x, y>> \in { <<0, 0>>, <<0, 100>>, <<0, 70>>, <<45, 0>>, <<45, 100>>,
                       <<10, 10>>, <<50, 50>>, <<100, 100>>, <<90, 60>>,
                       <<60, 40>>, <<80, 60>>, <<200, 20>>, <<300, 300>> } }

\* grid.get_sections_between_points(s, e)
Walk ==
    \E s \in PointInputs, e \in PointInputs :
        LET out == sections_walk(G, s, e)
        IN  /\ walk' = [op |-> "get_sections_between_points", s |-> s, e |-> e,
                        visited_ids |-> out.visited_ids,
                        steps |-> out.steps, turns |-> out.turns]
            /\ UNCHANGED <<gridvars, window_height, boxes, pc, loop_i, frames,
                           issued, last, bodies, counted>>

WalkInit == InitWith("walk", GridInputs)

WalkNext == Walk

\* An empty grid under any sequence of traversals.
WalkSpec == WalkInit /\ [][WalkNext]_vars

(* ------------------- the driver's frame order (main.rs) ----------------- *)
\* set_up: the board's walls are registered before the first frame.
SetUpWall ==
    /\ pc = "set_up"
    /\ \E wall \in WallInputs : DoAddWall(wall)
    /\ UNCHANGED <<pc, loop_i>>

\* set_up returns; main enters its loop.
SetUpDone ==
    /\ pc = "set_up"
    /\ ~panicked
    /\ pc' = "loop"
    /\ UNCHANGED <<gridvars, window_height, boxes, loop_i, frames, issued, last,
                   bodies, walk, counted>>

\* spawn_balls, at the top of a turn of main's loop
Spawn ==
    /\ pc = "loop"
    /\ frames < MaxFrames
    /\ \E ball \in SpawnInputs : DoAddBall(ball)
    /\ pc' = "draw_frame"
    /\ UNCHANGED loop_i

\* main_loop: grid.draw_frame(canvas, dt), after a spawn or without one
FrameDraw ==
    /\ pc \in {"loop", "draw_frame"}
    /\ \E dt \in DtInputs : DoDrawFrame(dt)
    /\ pc' = "update_boxes"
    /\ UNCHANGED loop_i

\* main_loop: grid.update_boxes(canvas, boxes, font, BOXSIZE, WINDOW_HEIGHT)
FrameUpdateBoxes ==
    /\ pc = "update_boxes"
    /\ DoUpdateBoxes
    /\ pc' = "cleanup"
    /\ UNCHANGED loop_i

\* main_loop: grid.cleanup()
FrameCleanup ==
    /\ pc = "cleanup"
    /\ DoCleanup
    /\ pc' = "handle_collisions"
    /\ loop_i' = 0

\* main_loop: one turn of `for _ in 0..COLLISION_LOOPS { grid.handle_collisions() }`
FrameHandleCollisions ==
    /\ pc = "handle_collisions"
    /\ loop_i < COLLISION_LOOPS
    /\ DoHandleCollisions
    /\ loop_i' = loop_i + 1
    /\ pc' = IF loop_i + 1 = COLLISION_LOOPS THEN "loop" ELSE "handle_collisions"

DriverInit == InitWith("set_up", {MainGrid})

DriverNext ==
    \/ SetUpWall
    \/ SetUpDone
    \/ Spawn
    \/ FrameDraw
    \/ FrameUpdateBoxes
    \/ FrameCleanup
    \/ FrameHandleCollisions

\* The grid as main drives it: set_up, then frames in main_loop's order.
DriverSpec == DriverInit /\ [][DriverNext]_vars

\* Grid::new over windows 40 high, which a ball spawned at y = 20 leaves in
\* its second frame: cells 10 high (the window's bottom is a cell boundary),
\* 15 high (below the window is out of range) and 25 high (the bottom row
\* starts above the window's bottom), and the grid of main.
WindowGrids == { MainGrid, <<50, 10, 100, 40>>, <<50, 15, 100, 40>>,
                 <<50, 25, 100, 40>> }

WindowInit == InitWith("set_up", WindowGrids)

\* The driver's frames on windows and cells of several heights.
WindowSpec == WindowInit /\ [][DriverNext]_vars

(* ------------------------------ properties ----------------------------- *)
\* The ids of all sections: the cells and the out-of-bounds sentinel.
AllSections == DOMAIN grid \cup {OutOfBoundsId}

\* The places (section, index) that hold a reference to ball i.
BallRefs(i) ==
    UNION { { <<sid, k>> : k \in { n \in 1..Len(SectionItems(G, sid)) :
                                     SectionItems(G, sid)[n] = BallItem(i) } }
            : sid \in AllSections }

\* The section the code computes from the position of live ball i.
SectionOfBall(i) ==
    get_section_at_position(G, balls[i].position[1], balls[i].position[2])

\* C1: every live ball's identifier is referenced from exactly one section
\* (a cell or the sentinel) and exactly once there, after any sequence of calls.
C1_OneReference == \A i \in DOMAIN balls : Cardinality(BallRefs(i)) = 1

\* C1's case: draw_frame has moved a ball out of its section while two balls live.
C1_Witness ==
    /\ last.op = "draw_frame"
    /\ last.from # {}
    /\ Cardinality(DOMAIN balls) = 2

\* The bodies referenced from the in-bounds cells of the 3x3 block around unit.
Neighbours(unit) ==
    UNION { { grid[c][k] : k \in 1..Len(grid[c]) }
            : c \in { d \in DOMAIN grid : /\ d[1] \in (unit[1] - 1)..(unit[1] + 1)
                                          /\ d[2] \in (unit[2] - 1)..(unit[2] + 1) } }

Count(seq, x) == Cardinality({ k \in 1..Len(seq) : seq[k] = x })

\* C2: in one handle_collisions pass, every wall and every other ball referenced
\* from the 3x3 neighbourhood of a live ball is resolved against it exactly once.
C2_EachNeighbourOnce ==
    ~panicked =>
        \A k \in 1..Len(handle_collisions(G).log) :
            LET e == handle_collisions(G).log[k]
            IN  \A item \in Neighbours(e.unit) \ {BallItem(e.ball)} :
                    Count(e.resolved, item) = 1

\* floor((coord + cellSize) / cellSize), on one axis
FloorUnit(x, unit) == (x + ToF32(unit)) \div ToF32(unit)

\* C3: the section of every position is the one with coordinates
\* floor((coord + cellSize) / cellSize), the sentinel when they are out of range.
C3_FloorMapping ==
    \A i \in DOMAIN balls :
        LET fx == FloorUnit(balls[i].position[1], unit_width)
            fy == FloorUnit(balls[i].position[2], unit_height)
        IN  SectionOfBall(i) =
                IF fx < 0 \/ fx >= x_units \/ fy < 0 \/ fy >= y_units
                THEN OutOfBoundsId ELSE <<fx, fy>>

\* The sentinel and the cells of the bottom row.
CleanedSections ==
    {OutOfBoundsId} \cup { c \in DOMAIN grid : c[2] = y_units - 1 }

\* The balls referenced from the sentinel or the bottom row.
Doomed ==
    { i \in 0..(ball_id - 1) :
        \E sid \in CleanedSections : Contains(SectionItems(G, sid), BallItem(i)) }

NoBalls(items) == SelectSeq(items, LAMBDA item : item.kind # "Ball")

\* C4: cleanup removes exactly the balls referenced from the sentinel and from
\* the bottom row, with their references; the count drops by their number and
\* every other ball and section is unchanged.
C4_CleanupRemovesExactly ==
    [][ /\ Doomed = {} => cleanup(G) = G
        /\ Cleanup =>
            /\ DOMAIN balls' = DOMAIN balls \ Doomed
            /\ ball_cnt' = ball_cnt - Cardinality(Doomed)
            /\ \A i \in DOMAIN balls' : balls'[i] = balls[i]
            /\ out_of_bounds' = NoBalls(out_of_bounds)
            /\ \A c \in DOMAIN grid :
                   grid'[c] = IF c[2] = y_units - 1 THEN NoBalls(grid[c]) ELSE grid[c]
            /\ walls' = walls /\ ~panicked' ]_vars

\* C4's case: one cleanup has removed a ball from the sentinel and one from the
\* bottom row, and the count went down by two.
C4_Witness ==
    /\ last.op = "cleanup"
    /\ last.cnt - ball_cnt = 2
    /\ OutOfBoundsId \in last.from
    /\ \E c \in DOMAIN grid : c[2] = y_units - 1 /\ c \in last.from

\* Ball i is below the window or outside the world extent the cells cover.
OutsidePlayfield(i) ==
    LET x == balls[i].position[1]
        y == balls[i].position[2]
    IN  \/ y >= ToF32(window_height)
        \/ x < ToF32(-unit_width) \/ x >= ToF32((x_units - 1) * unit_width)
        \/ y < ToF32(-unit_height) \/ y >= ToF32((y_units - 1) * unit_height)

\* C5: in the driver's frame order, no ball that the integration step left below
\* the window or outside the cells' extent survives that frame's cleanup.
C5_OutsideRemoved ==
    (pc = "handle_collisions" /\ loop_i = 0) =>
        \A i \in DOMAIN balls : ~OutsidePlayfield(i)

\* C6: between the grid's calls, a live ball's cached cell is the section of its
\* position, and that section holds its reference.
C6_CacheCurrent ==
    \A i \in DOMAIN balls :
        /\ balls[i].unit_id = SectionOfBall(i)
        /\ Contains(SectionItems(G, SectionOfBall(i)), BallItem(i))

\* C7: right after add_ball, for every grid, the new ball's unit_id is the id of
\* the section of its position, and that section holds its reference.
C7_AddBallCell ==
    last.op = "add_ball" =>
        /\ last.arg \in DOMAIN balls
        /\ balls[last.arg].unit_id = SectionOfBall(last.arg)
        /\ Contains(SectionItems(G, SectionOfBall(last.arg)), BallItem(last.arg))

\* C7's case: add_ball has registered a ball whose position is out of range.
C7_Witness ==
    /\ last.op = "add_ball"
    /\ last.arg \in DOMAIN balls
    /\ SectionOfBall(last.arg) = OutOfBoundsId

\* C8: a second move_ball right after a first changes nothing, and a move_ball
\* for a ball still in the section of its position changes nothing.
C8_MoveBallIdempotent ==
    \A i \in DOMAIN balls :
        /\ move_ball(move_ball(G, i), i) = move_ball(G, i)
        /\ balls[i].unit_id = SectionOfBall(i) => move_ball(G, i) = G

\* C8's case: a move_ball call has just moved a ball to another section.
C8_Witness ==
    /\ last.op = "move_ball"
    /\ last.from # {}
    /\ last.arg \in DOMAIN balls

StrictlyIncreasing(seq) == \A j, k \in 1..Len(seq) : j < k => seq[j] < seq[k]

Gone(g, i) ==
    /\ i \notin DOMAIN g.balls
    /\ ~Contains(g.out_of_bounds, BallItem(i))
    /\ \A c \in DOMAIN g.grid : ~Contains(g.grid[c], BallItem(i))

\* C10: for an identifier whose ball cleanup has removed, handle_collisions,
\* draw_frame, update_boxes and move_ball return without a panic and leave the
\* grid without the ball.
C10_RemovedIsSkipped ==
    ~panicked =>
        \A i \in (0..(ball_id - 1)) \ DOMAIN balls :
            /\ \A g \in { handle_collisions(G).g, move_ball(G, i) }
                        \cup { draw_frame(G, dt) : dt \in DtInputs } :
                   ~g.panicked /\ Gone(g, i)
            /\ Len(update_boxes(G, boxes, BOXSIZE, window_height)) = Len(boxes)

\* The cells of the grid g that reference wall w.
WallCells(g, w) == { c \in DOMAIN g.grid : Contains(g.grid[c], WallItem(w)) }

\* In the grid g no wall is referenced from the sentinel or twice from a cell.
WallRefsOnce(g) ==
    \A w \in DOMAIN g.walls :
        /\ ~Contains(g.out_of_bounds, WallItem(w))
        /\ \A c \in DOMAIN g.grid : Count(g.grid[c], WallItem(w)) <= 1

\* C11: a registered wall keeps its data and the set of cells that reference
\* it through every later call; the cells are in-bounds cells, each holding the
\* reference once; the wall count never decreases.
C11_WallsStay ==
    [][ /\ \A w \in DOMAIN walls :
              /\ w \in DOMAIN walls'
              /\ walls'[w] = walls[w]
              /\ WallCells(G', w) = WallCells(G, w)
        /\ wall_cnt' >= wall_cnt
        /\ WallRefsOnce(G') ]_vars

\* C11's case: with two walls registered one after the other, cleanup has
\* removed a ball from a cell that references a wall.
C11_Witness ==
    /\ wall_cnt = 2
    /\ last.op = "cleanup"
    /\ \E c \in last.from \cap DOMAIN grid : \E w \in DOMAIN walls : c \in WallCells(G, w)

\* The free-standing balls before the last call, and after it.
Was == bodies.was

Now == [self |-> bodies.self, other |-> bodies.other]

\* The f32 distance of the centres of balls a and b, and the sum of their radii.
CentreDistance(a, b) == get_magnitude(find_vector(b.position, a.position))

RadiusSum(a, b) == ToF32(a.radius + b.radius)

\* C12: ball_collision on two balls whose centre distance is greater than the
\* sum of their radii leaves the position and the velocity of both unchanged.
C12_FarBallsUntouched ==
    (/\ bodies.op = "ball_collision"
     /\ CentreDistance(Was.self, Was.other) > RadiusSum(Was.self, Was.other))
    => /\ Now.self.position = Was.self.position
       /\ Now.self.velocity = Was.self.velocity
       /\ Now.other.position = Was.other.position
       /\ Now.other.velocity = Was.other.velocity

\* C12's case: ball_collision was called on two distant balls, self moving.
C12_Witness ==
    /\ bodies.op = "ball_collision"
    /\ CentreDistance(Was.self, Was.other) > RadiusSum(Was.self, Was.other)
    /\ Was.self.velocity # <<0, 0>>

\* The f32 value a is a number: neither NaN nor an infinity.
Finite(a) == a # NAN /\ ~IsInf(a)

FiniteBall(b) ==
    \A k \in 1..2 : Finite(b.position[k]) /\ Finite(b.velocity[k])

\* C16: ball_collision on two balls with coincident centres and nonzero radii
\* returns plain numbers (no division by zero happened) and leaves both
\* positions unchanged.
C16_CoincidentBalls ==
    (/\ bodies.op = "ball_collision"
     /\ Was.self.position = Was.other.position
     /\ Was.self.radius > 0 /\ Was.other.radius > 0)
    => /\ FiniteBall(Now.self) /\ FiniteBall(Now.other)
       /\ Now.self.position = Was.self.position
       /\ Now.other.position = Was.other.position

\* C16's case: ball_collision was called on two coincident balls in motion.
C16_Witness ==
    /\ bodies.op = "ball_collision"
    /\ Was.self.position = Was.other.position
    /\ Was.self.velocity # <<0, 0>> /\ Was.other.velocity # <<0, 0>>

\* C20: right after Ball::move_ball both velocity components lie in
\* [MIN_VELOCITY, MAX_VELOCITY], whatever they were before.
C20_VelocityClamped ==
    bodies.op = "move_ball" =>
        \A k \in 1..2 :
            /\ Now.self.velocity[k] >= MIN_VELOCITY * Sub
            /\ Now.self.velocity[k] <= MAX_VELOCITY * Sub

\* C20's case: move_ball was called on a ball faster than the range both ways.
C20_Witness ==
    /\ bodies.op = "move_ball"
    /\ Was.self.velocity[1] > MAX_VELOCITY * Sub
    /\ Was.self.velocity[2] < MIN_VELOCITY * Sub

\* Two f32 values differ by at most two units of the fixed point; the same
\* for two products of f32 values, which count in units of 1 / (Sub * Sub).
Near(a, b) == Abs(a - b) <= 2

NearProduct(a, b) == Abs(a - b) <= 2 * Sub

\* The ball's offset from the wall's start, along the wall and across it.
AlongWall(ball, wall) == dot(find_vector(wall.a, ball.position), wall.vec)

AcrossWall(ball, wall) == dot(find_vector(wall.a, ball.position), wall.nvec)

\* The ball is in face contact with the wall and moves toward its line.
FaceContact(ball, wall) ==
    /\ AlongWall(ball, wall) >= 0 /\ AlongWall(ball, wall) <= wall.length
    /\ Abs(AcrossWall(ball, wall)) <= ToF32(ball.radius + TDiv(wall.width, 2))
    /\ AcrossWall(ball, wall) # 0
    /\ Sgn(dot(ball.velocity, wall.nvec)) = -Sgn(AcrossWall(ball, wall))

\* C13: wall_collision on a ball in face contact and moving toward the wall
\* makes its normal velocity -(restitution sum) times the incoming one, scales
\* its tangential velocity by 1 - (friction sum), and leaves it at the distance
\* radius + width/2 from the line on the side it was on.
C13_FaceResponse ==
    (bodies.op = "wall_collision" /\ FaceContact(Was.self, bodies.wall)) =>
        LET wall == bodies.wall
            R == wall.restitution + Was.self.restitution
            F == wall.friction + Was.self.friction
            side == Sgn(AcrossWall(Was.self, wall))
        IN  /\ NearProduct(dot(Now.self.velocity, wall.nvec) * Sub,
                           -R * dot(Was.self.velocity, wall.nvec))
            /\ NearProduct(dot(Now.self.velocity, wall.vec) * Sub,
                           (Sub - F) * dot(Was.self.velocity, wall.vec))
            /\ Near(AcrossWall(Now.self, wall),
                    side * ToF32(Was.self.radius + TDiv(wall.width, 2)))

\* C13's case: wall_collision was called on a ball that penetrates the wall
\* from its negative side, with normal and tangential velocity.
C13_Witness ==
    /\ bodies.op = "wall_collision"
    /\ FaceContact(Was.self, bodies.wall)
    /\ AcrossWall(Was.self, bodies.wall) < 0
    /\ Abs(AcrossWall(Was.self, bodies.wall)) < ToF32(Was.self.radius)
    /\ dot(Was.self.velocity, bodies.wall.vec) # 0

(* ------------------- C17: the response of ball on ball ----------------- *)
\* The contact normal of ball_collision: from b's centre to a's, normalized.
ContactNormal(a, b) == normalize(find_vector(b.position, a.position))

\* The tangent to ContactNormal.
ContactTangent(a, b) == <<FNeg(ContactNormal(a, b)[2]), ContactNormal(a, b)[1]>>

\* Twice avgNormalSpeed: |n_vel(a)| + |n_vel(b)|.
NormalSpeedSum(a, b) ==
    Abs(dot(a.velocity, ContactNormal(a, b))) + Abs(dot(b.velocity, ContactNormal(a, b)))

\* The two balls touch or overlap and do not separate.
Approaching(a, b) ==
    /\ FiniteBall(a) /\ FiniteBall(b)
    /\ CentreDistance(a, b) <= RadiusSum(a, b)
    /\ dot(a.velocity, ContactNormal(a, b)) - dot(b.velocity, ContactNormal(a, b)) <= 0

\* Velocity `now` is, within five units of the fixed point on each axis, the
\* sum of   sign * avgNormalSpeed * n * factor   and of the tangential part of
\* `ball` scaled by 1 - (friction(a) + friction(b)); n is the normal from b
\* to a. Both sides are counted in units of 1 / (2 * Sub^3).
ResponseIs(now, ball, a, b, sign, factor) ==
    LET nv == ContactNormal(a, b)
        tv == ContactTangent(a, b)
        F == a.friction + b.friction
        t_vel == dot(ball.velocity, tv)
    IN  \A i \in 1..2 :
            Abs(now[i] * 2 * Sub * Sub
                - (sign * NormalSpeedSum(a, b) * nv[i] * factor
                   + 2 * t_vel * tv[i] * (Sub - F)))
              <= 5 * 2 * Sub * Sub

\* C17 as stated: for two touching or overlapping balls that approach each
\* other, ball_collision gives self the normal part avgNormalSpeed * n *
\* (1 - (restitution(self) + restitution(other))) and other its opposite, each
\* with the ball's own tangential part scaled by 1 - (friction sum).
C17_OneMinusRestitution ==
    (bodies.op = "ball_collision" /\ Approaching(Was.self, Was.other)) =>
        LET R == Was.self.restitution + Was.other.restitution
        IN  /\ ResponseIs(Now.self.velocity, Was.self, Was.self, Was.other, 1, Sub - R)
            /\ ResponseIs(Now.other.velocity, Was.other, Was.self, Was.other, -1, Sub - R)

\* C17, amended: for two touching or overlapping balls that approach each
\* other, ball_collision gives self the normal part avgNormalSpeed * n *
\* (restitution(self) + restitution(other)) and other its opposite, each with
\* the ball's own tangential part scaled by 1 - (friction sum).
C17_RestitutionSum ==
    (bodies.op = "ball_collision" /\ Approaching(Was.self, Was.other)) =>
        LET R == Was.self.restitution + Was.other.restitution
        IN  /\ ResponseIs(Now.self.velocity, Was.self, Was.self, Was.other, 1, R)
            /\ ResponseIs(Now.other.velocity, Was.other, Was.self, Was.other, -1, R)

\* C17's case: ball_collision was called on two overlapping balls, apart from
\* each other on a diagonal, that closed in with normal and tangential speed.
C17_Witness ==
    /\ bodies.op = "ball_collision"
    /\ Approaching(Was.self, Was.other)
    /\ ContactNormal(Was.self, Was.other)[1] # 0
    /\ ContactNormal(Was.self, Was.other)[2] # 0
    /\ NormalSpeedSum(Was.self, Was.other) > Px(10)
    /\ dot(Was.self.velocity, ContactTangent(Was.self, Was.other)) # 0
    /\ dot(Was.other.velocity, ContactTangent(Was.self, Was.other)) # 0
    /\ Now.self.velocity # Was.self.velocity

(* ---------------- C14, C15, C18, C19: the traversal ------------------- *)
\* A traversal has been called.
Walked == walk.op = "get_sections_between_points"

\* The sections of the two endpoints of the last traversal.
WalkStart == get_section_at_position(G, walk.s[1], walk.s[2])

WalkEnd == get_section_at_position(G, walk.e[1], walk.e[2])

\* The last traversal ran between two points of in-grid cells.
WalkInGrid == Walked /\ WalkStart # OutOfBoundsId /\ WalkEnd # OutOfBoundsId

\* C14: for a vertical segment that lies in one grid column and runs downward
\* between two in-grid cells (a wall from the top to the bottom of the window
\* is one), get_sections_between_points returns the cells of that column for
\* every row from the start cell's row to the end cell's row, in order, each
\* once.
C14_VerticalWall ==
    (WalkInGrid /\ walk.s[1] = walk.e[1] /\ walk.s[2] < walk.e[2]) =>
        walk.visited_ids =
            [i \in 1..(WalkEnd[2] - WalkStart[2] + 1) |->
                <<WalkStart[1], WalkStart[2] + i - 1>>]

\* C14's case: the traversal of a wall from the top of the window to its
\* bottom returned three rows of one column.
C14_Witness ==
    /\ WalkInGrid
    /\ walk.s[1] = walk.e[1]
    /\ walk.s[2] = 0 /\ walk.e[2] = Px(window_height)
    /\ Len(walk.visited_ids) = 3

\* C15: get_sections_between_points between a point and itself, or between two
\* points of the same section, returns exactly one element, the coordinate of
\* that section (the sentinel's when the points are out of range).
C15_Degenerate ==
    (Walked /\ WalkStart = WalkEnd) => walk.visited_ids = <<WalkStart>>

\* C15's case: a traversal between two different points out of range returned
\* the sentinel alone.
C15_Witness ==
    /\ Walked
    /\ walk.s # walk.e
    /\ WalkStart = OutOfBoundsId /\ WalkEnd = OutOfBoundsId
    /\ walk.visited_ids = <<OutOfBoundsId>>

\* Two sections differ by exactly 1 in exactly one coordinate.
Adjacent(a, b) == Abs(a[1] - b[1]) + Abs(a[2] - b[2]) = 1

\* C18: for a segment whose two ends are in in-grid cells, the result of
\* get_sections_between_points does not hold the sentinel, starts with the
\* start cell, ends with the end cell, and steps by exactly 1 in exactly one
\* coordinate between consecutive entries.
C18_CellByCell ==
    WalkInGrid =>
        /\ ~Contains(walk.visited_ids, OutOfBoundsId)
        /\ walk.visited_ids[1] = WalkStart
        /\ walk.visited_ids[Len(walk.visited_ids)] = WalkEnd
        /\ \A i \in 1..(Len(walk.visited_ids) - 1) :
               Adjacent(walk.visited_ids[i], walk.visited_ids[i + 1])

\* C19: get_sections_between_points returns for every pair of endpoints: a
\* turn of its loop that does not break counts a step, the loop takes at most
\* 2 * (x_units + y_units) + 11 turns, and the result holds at least one entry
\* and at most that many entries plus the end cell.
C19_Bounded ==
    Walked =>
        /\ walk.turns <= walk.steps + 1
        /\ walk.turns <= 2 * (x_units + y_units) + 11
        /\ Len(walk.visited_ids) >= 1
        /\ Len(walk.visited_ids) <= 2 * (x_units + y_units) + 11 + 1

\* C19's case: a traversal whose loop took four turns or more.
C19_Witness == Walked /\ walk.turns >= 4

(* ------------------ C21: counts and references agree -------------------- *)
\* The references (section, index) of one kind held by the sections.
RefsOfKind(kind) ==
    UNION { { <<sid, k>> : k \in { n \in 1..Len(SectionItems(G, sid)) :
                                     SectionItems(G, sid)[n].kind = kind } }
            : sid \in AllSections }

\* The item a reference (section, index) holds.
ItemAt(ref) == SectionItems(G, ref[1])[ref[2]]

\* C21: in every reachable state ball_cnt is the number of entries of the ball
\* collection and the number of ball references over all cells and the
\* sentinel; every ball reference names a ball of the collection and every
\* wall reference a wall of the wall collection; so a cleanup does not
\* underflow ball_cnt and a handle_collisions pass does not fail a lookup.
C21_CountsAgree ==
    /\ ball_cnt = Cardinality(DOMAIN balls)
    /\ ball_cnt = Cardinality(RefsOfKind("Ball"))
    /\ \A ref \in RefsOfKind("Ball") : ItemAt(ref).id \in DOMAIN balls
    /\ \A ref \in RefsOfKind("Wall") : ItemAt(ref).id \in DOMAIN walls
    /\ ~panicked => (~cleanup(G).panicked /\ ~handle_collisions(G).g.panicked)

\* C21's case: a cleanup has removed one of two balls next to a registered
\* wall, and the ball that stays has been through a collision pass since.
C21_Witness ==
    /\ last.op = "handle_collisions"
    /\ ball_id = 2 /\ ball_cnt = 1
    /\ RefsOfKind("Wall") # {}

(* ----------------- C22: a ball is counted at most once ------------------ *)
\* The live balls below the window: those update_boxes counts.
BelowWindow ==
    { i \in DOMAIN balls : FGt(balls[i].position[2], ToF32(window_height)) }

\* C22: in the driver's frame order, for every window height and cell height,
\* the cleanup that follows update_boxes removes every ball below the window,
\* no ball that incremented a box is alive once that cleanup is done, and no
\* ball increments a box twice.
C22_CountedOnce ==
    /\ pc = "cleanup" =>
           \A i \in BelowWindow : i \notin DOMAIN cleanup(G).balls
    /\ pc # "cleanup" =>
           \A k \in 1..Len(counted) : counted[k] \notin DOMAIN balls
    /\ \A k \in 1..Len(counted) : Count(counted, counted[k]) = 1

\* C22's case: a ball incremented a box, the cleanup of that frame is done,
\* and another ball is still alive.
C22_Witness ==
    /\ pc = "handle_collisions"
    /\ Len(counted) >= 1
    /\ boxes # [i \in 1..Len(boxes) |-> 0]
    /\ ball_cnt >= 1

====
